---------------------------- MODULE Spec2Model ----------------------------
(***************************************************************************)
(* A model of the resume analyser: the SkillMatcher engine                 *)
(* (src/skill_matcher.py), the document reader (src/resume_parser.py) and  *)
(* the /analyze request handler (src/analyze.py).                          *)
(*                                                                         *)
(* A text is a sequence of one-character strings, so the regular           *)
(* expressions of the code are modelled character by character.            *)
(***************************************************************************)
EXTENDS Integers, Sequences, FiniteSets, TLC

VARIABLES
  in_resume,    \* the resume text the engine is given
  in_job,       \* the job description text the engine is given
  call,         \* the last SkillMatcher call: its name and its arguments
  ret,          \* what that call returned
  locals,       \* the local variables of that call when it returned
  vocabulary_,  \* self.vectorizer.vocabulary_, the fitted state of the shared vectorizer
  tpc,          \* per thread: where it is inside calculate_similarity
  targs,        \* per thread: the two arguments of its calculate_similarity call
  tlocal,       \* per thread: the locals of fit_transform (vocabulary, X)
  tret,         \* per thread: the value its call returned
  hpc,          \* the /analyze handler's position
  request,      \* the uploaded files of the request being handled
  disk,         \* the temporary files that exist
  hlocals,      \* the handler's locals: resume_text, job_desc_text, results
  analyzed,     \* whether the handler invoked skill_matcher.analyze
  raised,       \* whether an exception reached the handler's except clause
  response      \* the handler's response: status and body

vars == <<in_resume, in_job, call, ret, locals, vocabulary_, tpc, targs, tlocal, tret,
          hpc, request, disk, hlocals, analyzed, raised, response>>

(***************************************************************************)
(* Characters and strings.                                                 *)
(***************************************************************************)
\* A Python str as the sequence of its characters.
Str(s) == [i \in 1..Len(s) |-> SubSeq(s, i, i)]

Range(f) == {f[i] : i \in DOMAIN f}

\* The printable ASCII characters of codes 32 to 95, in code-point order.
ASCII_32_95 ==
  Str(" !") \o <<"\"">> \o Str("#$%&'()*+,-./0123456789:;<=>?@ABCDEFGHIJKLMNOPQRSTUVWXYZ[")
    \o <<"\\">> \o Str("]^_")

\* The printable ASCII characters of codes 97 to 126, in code-point order.
ASCII_97_126 == Str("abcdefghijklmnopqrstuvwxyz{|}~")

\* ord() of one of these characters.
Ord(c) ==
  IF c \in Range(ASCII_97_126)
  THEN 96 + (CHOOSE i \in DOMAIN ASCII_97_126 : ASCII_97_126[i] = c)
  ELSE 31 + (CHOOSE i \in DOMAIN ASCII_32_95 : ASCII_32_95[i] = c)

\* chr() of a code from 97 to 126.
Chr(n) == ASCII_97_126[n - 96]

UpperLetters == Range(Str("ABCDEFGHIJKLMNOPQRSTUVWXYZ"))

LowerLetters == Range(Str("abcdefghijklmnopqrstuvwxyz"))

Digits == Range(Str("0123456789"))

\* The regular expression class [a-zA-Z].
Letters == UpperLetters \cup LowerLetters

\* The regular expression class \w.
WordChars == Letters \cup Digits \cup {"_"}

\* The regular expression class [a-zA-Z\-\.].
PhraseChars == Letters \cup {"-", "."}

\* str.lower() of one character.
lower_char(c) == IF c \in UpperLetters THEN Chr(Ord(c) + 32) ELSE c

\* As lower, but the text is left as it was written.
lower_omitted(text) == text

\* str.lower()
lower(text) == [i \in 1..Len(text) |-> lower_char(text[i])]

\* The regular expression assertion \b just before position i of text (1..Len+1).
WordBoundary(text, i) ==
  LET before == i > 1 /\ text[i - 1] \in WordChars
      after  == i <= Len(text) /\ text[i] \in WordChars
  IN  before # after

\* Code-point order of two strings, as sorted() compares them.
RECURSIVE StrLess(_, _)
StrLess(a, b) ==
  IF a = <<>> THEN b # <<>>
  ELSE IF b = <<>> THEN FALSE
  ELSE IF a[1] = b[1] THEN StrLess(Tail(a), Tail(b))
  ELSE Ord(a[1]) < Ord(b[1])

\* sorted(list(s)) of a set of strings.
RECURSIVE sorted(_)
sorted(s) ==
  IF s = {} THEN <<>>
  ELSE LET least == CHOOSE x \in s : \A y \in s \ {x} : StrLess(x, y)
       IN  <<least>> \o sorted(s \ {least})

(***************************************************************************)
(* The vocabulary: SkillMatcher.__init__.                                  *)
(***************************************************************************)
common_tech_skills ==
  {
    Str("python"), Str("java"), Str("javascript"), Str("typescript"), Str("c++"),
    Str("c#"), Str("ruby"), Str("php"), Str("swift"), Str("kotlin"), Str("Golang"),
    Str("Go"), Str("rust"), Str("html"), Str("css"), Str("react"), Str("angular"),
    Str("vue"), Str("node.js"), Str("express"), Str("django"), Str("flask"),
    Str("spring"), Str("hibernate"), Str("docker"), Str("kubernetes"), Str("aws"),
    Str("azure"), Str("gcp"), Str("terraform"), Str("jenkins"), Str("github actions"),
    Str("circleci"), Str("travis"), Str("git"), Str("svn"), Str("sql"), Str("mysql"),
    Str("postgresql"), Str("mongodb"), Str("redis"), Str("elasticsearch"),
    Str("kafka"), Str("rabbitmq"), Str("tensorflow"), Str("pytorch"),
    Str("scikit-learn"), Str("pandas"), Str("numpy"), Str("matplotlib"),
    Str("tableau"), Str("power bi"), Str("excel"), Str("jira"), Str("confluence"),
    Str("agile"), Str("scrum"), Str("kanban"), Str("rest api"), Str("graphql"),
    Str("oauth"), Str("jwt"), Str("microservices"), Str("devops"), Str("ci/cd"),
    Str("machine learning"), Str("deep learning"), Str("nlp"), Str("data analysis"),
    Str("data science"), Str("big data"), Str("hadoop"), Str("spark")
  }

programming_languages ==
  {
    Str("python"), Str("java"), Str("c++"), Str("c#"), Str("javascript"),
    Str("typescript"), Str("ruby"), Str("go"), Str("rust"), Str("php"), Str("scala"),
    Str("kotlin"), Str("swift"), Str("r"), Str("perl"), Str("bash"), Str("powershell"),
    Str("sql")
  }

frontend ==
  {
    Str("html"), Str("css"), Str("javascript"), Str("react"), Str("angular"),
    Str("vue"), Str("redux"), Str("bootstrap"), Str("tailwind"), Str("jquery"),
    Str("webpack"), Str("sass"), Str("less"), Str("typescript"), Str("next.js"),
    Str("gatsby")
  }

backend ==
  {
    Str("node.js"), Str("express"), Str("django"), Str("flask"), Str("spring"),
    Str("laravel"), Str("ruby on rails"), Str("asp.net"), Str("fastapi"),
    Str("graphql"), Str("rest api"), Str("websockets"), Str("microservices")
  }

databases ==
  {
    Str("sql"), Str("mysql"), Str("postgresql"), Str("mongodb"), Str("sqlite"),
    Str("oracle"), Str("dynamodb"), Str("redis"), Str("cassandra"),
    Str("elasticsearch"), Str("firebase"), Str("mariadb"), Str("neo4j"),
    Str("couchbase")
  }

devops ==
  {
    Str("docker"), Str("kubernetes"), Str("jenkins"), Str("gitlab ci"),
    Str("github actions"), Str("terraform"), Str("ansible"), Str("puppet"),
    Str("chef"), Str("aws"), Str("azure"), Str("gcp"), Str("ci/cd"), Str("prometheus"),
    Str("grafana")
  }

data_science ==
  {
    Str("python"), Str("r"), Str("pandas"), Str("numpy"), Str("matplotlib"),
    Str("scikit-learn"), Str("tensorflow"), Str("pytorch"), Str("keras"),
    Str("jupyter"), Str("tableau"), Str("power bi"), Str("machine learning"),
    Str("deep learning"), Str("statistics"), Str("data visualization"),
    Str("big data"), Str("data mining")
  }

soft_skills ==
  {
    Str("leadership"), Str("communication"), Str("teamwork"), Str("problem solving"),
    Str("critical thinking"), Str("time management"), Str("project management"),
    Str("creativity"), Str("adaptability"), Str("collaboration")
  }


skill_categories ==
  [programming_languages |-> programming_languages, frontend |-> frontend,
   backend |-> backend, databases |-> databases, devops |-> devops,
   data_science |-> data_science, soft_skills |-> soft_skills]

\* The flattened set of all skills.
all_skills ==
  UNION {skill_categories[category] : category \in DOMAIN skill_categories}
    \cup common_tech_skills

(***************************************************************************)
(* SkillMatcher.extract_skills.                                            *)
(***************************************************************************)
\* re.search(r'\b' + re.escape(skill) + r'\b', text_lower): the escaped skill is
\* matched literally, with \b asserted before its first and after its last character.
whole_word_search(skill, text_lower) ==
  \E i \in 1..(Len(text_lower) - Len(skill) + 1) :
    /\ SubSeq(text_lower, i, i + Len(skill) - 1) = skill
    /\ WordBoundary(text_lower, i)
    /\ WordBoundary(text_lower, i + Len(skill))

\* The first loop: the known skills found as "whole words".
exact_term_pass(text_lower) ==
  {skill \in all_skills : whole_word_search(skill, text_lower)}

\* re.finditer(r'\b[A-Z][A-Z]+\b', text): a match is a run of two or more capital
\* letters with \b on both sides; its lower-cased text is added.
abbreviation_pass(text) ==
  {lower(SubSeq(text, i, j)) : <<i, j>> \in
     {m \in (1..Len(text)) \X (1..Len(text)) :
        /\ m[2] > m[1]
        /\ \A k \in m[1]..m[2] : text[k] \in UpperLetters
        /\ WordBoundary(text, m[1])
        /\ WordBoundary(text, m[2] + 1)}}

\* The end of the match of \b[a-zA-Z][a-zA-Z\-\.]+\b that starts at i: the greedy
\* class backs off to the last position followed by \b. 0 when there is no match at i.
word_end(text_lower, i) ==
  LET ends == {e \in (i + 1)..Len(text_lower) :
                 /\ \A k \in (i + 1)..e : text_lower[k] \in PhraseChars
                 /\ WordBoundary(text_lower, e + 1)}
  IN  IF /\ text_lower[i] \in Letters
         /\ WordBoundary(text_lower, i)
         /\ ends # {}
      THEN CHOOSE e \in ends : \A f \in ends : f <= e
      ELSE 0

\* re.findall(r'\b[a-zA-Z][a-zA-Z\-\.]+\b', text_lower), scanning from position i:
\* the matches from left to right, none overlapping another.
RECURSIVE findall_words(_, _)
findall_words(text_lower, i) ==
  IF i > Len(text_lower) THEN <<>>
  ELSE LET e == word_end(text_lower, i)
       IN  IF e = 0 THEN findall_words(text_lower, i + 1)
           ELSE <<SubSeq(text_lower, i, e)>> \o findall_words(text_lower, e + 1)

\* ' '.join(words[i:i+n]) for i in range(len(words) - n + 1)
ngrams(words, n) ==
  LET RECURSIVE join(_, _)
      join(i, k) == IF k = 1 THEN words[i]
                    ELSE words[i] \o <<" ">> \o join(i + 1, k - 1)
  IN  [i \in 1..(Len(words) - n + 1) |-> join(i, n)]

\* The last loop: the bigrams and trigrams that are known skills.
phrase_pass(text_lower) ==
  LET words    == findall_words(text_lower, 1)
      bigrams  == ngrams(words, 2)
      trigrams == ngrams(words, 3)
  IN  {phrase \in Range(bigrams \o trigrams) : phrase \in all_skills}

extract_skills(text) ==
  IF text = <<>> THEN {}
  ELSE LET text_lower == lower(text)
       IN  exact_term_pass(text_lower) \cup abbreviation_pass(text)
             \cup phrase_pass(text_lower)

(***************************************************************************)
(* SkillMatcher.calculate_similarity.  A similarity is a fixed-point       *)
(* number: the integer s stands for s / SimScale.                          *)
(***************************************************************************)
SimScale == 100 * 100

\* The integer square root: the largest s in lo..hi with s * s <= n.
RECURSIVE isqrt_between(_, _, _)
isqrt_between(n, lo, hi) ==
  IF lo >= hi THEN lo
  ELSE LET mid == (lo + hi + 1) \div 2
       IN  IF mid * mid <= n THEN isqrt_between(n, mid, hi)
           ELSE isqrt_between(n, lo, mid - 1)

\* CountVectorizer's analyzer with its default token_pattern (?u)\b\w\w+\b:
\* the runs of two or more word characters of the document, from position i.
RECURSIVE tokenize(_, _)
tokenize(doc, i) ==
  IF i > Len(doc) THEN <<>>
  ELSE IF doc[i] \notin WordChars THEN tokenize(doc, i + 1)
  ELSE LET e == CHOOSE e \in i..Len(doc) :
                  /\ \A k \in i..e : doc[k] \in WordChars
                  /\ (e = Len(doc) \/ doc[e + 1] \notin WordChars)
       IN  IF e > i THEN <<SubSeq(doc, i, e)>> \o tokenize(doc, e + 1)
           ELSE tokenize(doc, e + 1)

\* The vocabulary fit_transform learns from the documents: every token of them.
fit_vocabulary(documents) ==
  UNION {Range(tokenize(documents[d], 1)) : d \in DOMAIN documents}

\* The document-term matrix over a vocabulary: X[d][term] is the number of times
\* the term occurs in document d.
count_matrix(documents, vocabulary) ==
  [d \in DOMAIN documents |->
     LET tokens == tokenize(documents[d], 1)
     IN  [term \in vocabulary |-> Cardinality({k \in DOMAIN tokens : tokens[k] = term})]]

RECURSIVE SumOver(_, _)
SumOver(f, s) ==
  IF s = {} THEN 0
  ELSE LET x == CHOOSE x \in s : TRUE IN f[x] + SumOver(f, s \ {x})

\* As cosine_similarity, but dividing by |a|^2 * |b|^2, the square root forgotten.
cosine_similarity_squared_norms(X) ==
  LET terms == DOMAIN X[1]
      dot   == SumOver([t \in terms |-> X[1][t] * X[2][t]], terms)
      n     == SumOver([t \in terms |-> X[1][t] * X[1][t]], terms)
                 * SumOver([t \in terms |-> X[2][t] * X[2][t]], terms)
  IN  IF n = 0 THEN 0 ELSE (SimScale * dot) \div n

\* cosine_similarity(X)[0, 1]: dot(a, b) / (|a| * |b|), and 0 for a zero row,
\* truncated to the fixed point.  dot^2 <= |a|^2 * |b|^2 keeps the quotient
\* within SimScale^2.
cosine_similarity(X) ==
  LET terms == DOMAIN X[1]
      dot   == SumOver([t \in terms |-> X[1][t] * X[2][t]], terms)
      n     == SumOver([t \in terms |-> X[1][t] * X[1][t]], terms)
                 * SumOver([t \in terms |-> X[2][t] * X[2][t]], terms)
      s2    == SimScale * SimScale
  IN  IF n = 0 THEN 0
      ELSE isqrt_between((s2 \div n) * (dot * dot) + ((s2 % n) * (dot * dot)) \div n,
                         0, SimScale)

\* As transform_vocabulary, but counting over the vocabulary_ the shared
\* vectorizer holds, as transform() after a separate fit() would.
transform_vocabulary_shared(fitted, shared) == shared

\* The vocabulary the document-term matrix of a fit_transform call is counted
\* over: the one that call has just learnt from its own documents.
transform_vocabulary(fitted, shared) == fitted

\* calculate_similarity as one call: the returned similarity, the vocabulary_ the
\* vectorizer is left with, and whether an error was logged.
calculate_similarity(resume_text, job_text, shared) ==
  IF resume_text = <<>> \/ job_text = <<>>
  THEN [similarity |-> 0, vocabulary_ |-> shared, logged |-> FALSE]
  ELSE LET documents  == <<lower(resume_text), lower(job_text)>>
           vocabulary == fit_vocabulary(documents)
       IN  IF vocabulary = {}
           \* ValueError("empty vocabulary; ..."), caught by the except clause
           THEN [similarity |-> 0, vocabulary_ |-> shared, logged |-> TRUE]
           ELSE [similarity |->
                   cosine_similarity(
                     count_matrix(documents, transform_vocabulary(vocabulary, shared))),
                 vocabulary_ |-> vocabulary, logged |-> FALSE]

(***************************************************************************)
(* SkillMatcher.find_matching_skills, find_missing_skills and analyze.     *)
(***************************************************************************)
\* As find_matching_skills, but with the union taken for the intersection.
find_matching_skills_union(resume_skills, job_skills) == resume_skills \cup job_skills

find_matching_skills(resume_skills, job_skills) == resume_skills \cap job_skills

find_missing_skills(resume_skills, job_skills, matching_skills) ==
  job_skills \ matching_skills

\* coverage, as the fraction <<numerator, denominator>>.
coverage_of(matching_skills, job_skills) ==
  IF job_skills # {}
  THEN <<Cardinality(matching_skills), Cardinality(job_skills)>>
  ELSE <<0, 1>>

\* The nearest integer to num / den, a tie going to the even one, as round() does.
round_half_even(num, den) ==
  LET q == num \div den
      r == num % den
  IN  IF 2 * r < den THEN q
      ELSE IF 2 * r > den THEN q + 1
      ELSE IF q % 2 = 0 THEN q
      ELSE q + 1

\* As match_percentage_of, but with the two 0.5 weights left out.
match_percentage_unweighted(text_similarity, coverage) ==
  round_half_even(text_similarity * coverage[2] + SimScale * coverage[1], coverage[2])

\* round((text_similarity * 0.5 + coverage * 0.5) * 100, 2), in hundredths of a
\* percent: 100 * 100 * (s / SimScale + m / j) / 2 = (s * j + SimScale * m) / (2 * j).
match_percentage_of(text_similarity, coverage) ==
  round_half_even(text_similarity * coverage[2] + SimScale * coverage[1],
                  2 * coverage[2])

\* Lines 188 to 217 of analyze, given the two extracted skill sets and the outcome
\* of calculate_similarity: the locals and the results record.
analyze_skills(resume_skills, job_skills, sim) ==
  LET matching_skills == find_matching_skills(resume_skills, job_skills)
      missing_skills  == find_missing_skills(resume_skills, job_skills, matching_skills)
      coverage        == coverage_of(matching_skills, job_skills)
  IN  [text_similarity |-> sim.similarity,
       coverage        |-> coverage,
       vocabulary_     |-> sim.vocabulary_,
       logged          |-> sim.logged,
       results |->
         [match_percentage    |-> match_percentage_of(sim.similarity, coverage),
          resume_skills       |-> sorted(resume_skills),
          job_required_skills |-> sorted(job_skills),
          matching_skills     |-> sorted(matching_skills),
          missing_skills      |-> sorted(missing_skills),
          skill_count |->
            [resume          |-> Cardinality(resume_skills),
             job_description |-> Cardinality(job_skills),
             matching        |-> Cardinality(matching_skills),
             missing         |-> Cardinality(missing_skills)]]]

\* analyze as one call: its locals, the results it returns, and the vocabulary_
\* the vectorizer is left with.
analyze(resume_text, job_desc_text, shared) ==
  analyze_skills(extract_skills(resume_text), extract_skills(job_desc_text),
                 calculate_similarity(resume_text, job_desc_text, shared))

(***************************************************************************)
(* The inputs: texts made of a few fragments.                              *)
(***************************************************************************)
MaxFrags == 3

Fragments ==
  <<Str("java"), Str("script"), Str("c++"), Str("Go"), Str("AWS "), Str(","),
    Str("big data")>>

RECURSIVE Concat(_)
Concat(ss) == IF ss = <<>> THEN <<>> ELSE Head(ss) \o Concat(Tail(ss))

\* The texts made of exactly n fragments.
TextsOf(n) == {Concat([i \in 1..n |-> Fragments[c[i]]]) : c \in [1..n -> DOMAIN Fragments]}

\* The texts made of at most n fragments.
Texts(n) == UNION {TextsOf(k) : k \in 0..n}

\* The pairs of texts made of at most n fragments together.
TextPairs(n) == UNION {TextsOf(k) \X Texts(n - k) : k \in 0..n}

(***************************************************************************)
(* The match engine: one SkillMatcher (skill_matcher = SkillMatcher()),    *)
(* its operations applied to a resume text and a job description text.     *)
(***************************************************************************)
NoCall == [op |-> "none", args |-> <<>>]

InitEngine ==
  /\ call = NoCall
  /\ ret = <<>>
  /\ locals = <<>>
  /\ vocabulary_ = {}

NoThreads ==
  /\ tpc = <<>>
  /\ targs = <<>>
  /\ tlocal = <<>>
  /\ tret = <<>>

InitHandler ==
  /\ hpc = "idle"
  /\ request = <<>>
  /\ disk = {}
  /\ hlocals = <<>>
  /\ analyzed = FALSE
  /\ raised = FALSE
  /\ response = <<>>

input_vars == <<in_resume, in_job>>

engine_vars == <<call, ret, locals, vocabulary_>>

thread_vars == <<tpc, targs, tlocal, tret>>

handler_vars == <<hpc, request, disk, hlocals, analyzed, raised, response>>

ExtractSkills(text) ==
  /\ call' = [op |-> "extract_skills", args |-> <<text>>]
  /\ ret' = extract_skills(text)
  /\ locals' = IF text = <<>> THEN <<>>
               ELSE [exact  |-> exact_term_pass(lower(text)),
                     abbrev |-> abbreviation_pass(text),
                     phrase |-> phrase_pass(lower(text))]
  /\ UNCHANGED <<input_vars, vocabulary_, thread_vars, handler_vars>>

CalculateSimilarity ==
  LET r == calculate_similarity(in_resume, in_job, vocabulary_)
  IN  /\ call' = [op |-> "calculate_similarity", args |-> <<in_resume, in_job>>]
      /\ ret' = r.similarity
      /\ locals' = [logged |-> r.logged]
      /\ vocabulary_' = r.vocabulary_
      /\ UNCHANGED <<input_vars, thread_vars, handler_vars>>

Analyze ==
  LET r == analyze(in_resume, in_job, vocabulary_)
  IN  /\ call' = [op |-> "analyze", args |-> <<in_resume, in_job>>]
      /\ ret' = r.results
      /\ locals' = [text_similarity |-> r.text_similarity, coverage |-> r.coverage,
                    logged |-> r.logged]
      /\ vocabulary_' = r.vocabulary_
      /\ UNCHANGED <<input_vars, thread_vars, handler_vars>>

Init ==
  /\ \E p \in TextPairs(MaxFrags) : in_resume = p[1] /\ in_job = p[2]
  /\ InitEngine
  /\ NoThreads
  /\ InitHandler

Next ==
  \/ \E text \in {in_resume, in_job} : ExtractSkills(text)
  \/ CalculateSimilarity
  \/ Analyze

Spec == Init /\ [][Next]_vars

(***************************************************************************)
(* Properties of the match engine.                                         *)
(***************************************************************************)
HasUpper(text) == \E k \in DOMAIN text : text[k] \in UpperLetters

\* An occurrence of term at position i of text with, on each side, a non-word
\* character (punctuation, whitespace) or the end of the text.
DelimitedAt(term, text, i) ==
  /\ i + Len(term) - 1 <= Len(text)
  /\ SubSeq(text, i, i + Len(term) - 1) = term
  /\ (i = 1 \/ text[i - 1] \notin WordChars)
  /\ (i + Len(term) - 1 = Len(text) \/ text[i + Len(term)] \notin WordChars)

\* C1: the lists analyze returns obey the set laws: matching = resume /\ job,
\* missing = job - matching, missing and matching are disjoint and together
\* make up the job's required skills.
C1_SetLaws ==
  call.op = "analyze" =>
    LET R == Range(ret.resume_skills)
        J == Range(ret.job_required_skills)
        matching == Range(ret.matching_skills)
        missing  == Range(ret.missing_skills)
    IN  /\ matching = R \cap J
        /\ missing = J \ matching
        /\ missing \cap matching = {}
        /\ missing \cup matching = J

\* An analysis with a skill of the job found in the resume and another one not.
C1_Witness ==
  /\ call.op = "analyze"
  /\ ret.matching_skills # <<>>
  /\ ret.missing_skills # <<>>

\* C2: the match percentage analyze returns lies between 0 and 100 (here in
\* hundredths of a percent), it is the rounded mean of similarity and coverage
\* times 100, and coverage is |matching| / |job| for a job with skills, else 0.
C2_MatchPercentage ==
  call.op = "analyze" =>
    LET m == Len(ret.matching_skills)
        j == Len(ret.job_required_skills)
    IN  /\ ret.match_percentage >= 0
        /\ ret.match_percentage <= 100 * 100
        /\ locals.coverage = IF j > 0 THEN <<m, j>> ELSE <<0, 1>>
        /\ ret.match_percentage =
             round_half_even(locals.text_similarity * locals.coverage[2]
                               + SimScale * locals.coverage[1],
                             2 * locals.coverage[2])

\* An analysis with similar texts and a job only partly covered by the resume.
C2_Witness ==
  /\ call.op = "analyze"
  /\ locals.text_similarity > 0
  /\ locals.coverage[1] > 0
  /\ locals.coverage[1] < locals.coverage[2]
  /\ ret.match_percentage > 0
  /\ ret.match_percentage < 100 * 100

\* C3: extract_skills finds, in lowercase, every vocabulary term that occurs in
\* the text, in any letter case, between punctuation, whitespace or the ends of
\* the text.
C3_DelimitedTermFound ==
  (call.op = "extract_skills" /\ call.args[1] # <<>>) =>
    \A term \in all_skills :
      (\E i \in DOMAIN call.args[1] :
         DelimitedAt(lower(term), lower(call.args[1]), i))
        => lower(term) \in ret

\* C4: the exact-term pass adds a term only when an occurrence of it in the
\* lower-cased text has a non-word character or the end of the text on each side.
C4_ExactPassWholeWord ==
  (call.op = "extract_skills" /\ call.args[1] # <<>>) =>
    \A skill \in locals.exact :
      \E i \in DOMAIN call.args[1] : DelimitedAt(skill, lower(call.args[1]), i)

\* C5: every skill term of the four lists analyze returns is lowercase.
C5_LowercaseSkills ==
  call.op = "analyze" =>
    \A term \in Range(ret.resume_skills) \cup Range(ret.job_required_skills)
                  \cup Range(ret.matching_skills) \cup Range(ret.missing_skills) :
      ~HasUpper(term)

\* An analysis of a resume written with capitals, "Go" among them, that finds go.
C5_Witness ==
  /\ call.op = "analyze"
  /\ \E i \in DOMAIN call.args[1] : DelimitedAt(Str("Go"), call.args[1], i)
  /\ Str("go") \in Range(ret.resume_skills)

\* C7 as stated: calculate_similarity returns 0 when a text is empty, and 1 for
\* every non-empty text compared with itself.
C7_IdenticalIsOne ==
  call.op = "calculate_similarity" =>
    /\ (call.args[1] = <<>> \/ call.args[2] = <<>>) => ret = 0
    /\ (call.args[1] # <<>> /\ call.args[1] = call.args[2]) => ret = SimScale

\* C7 as amended: calculate_similarity returns 0 when a text is empty; for a
\* non-empty text compared with itself it returns 1 when the text holds a token
\* (two or more word characters in a row), and 0 when it holds none.
C7_IdenticalWithTokenIsOne ==
  call.op = "calculate_similarity" =>
    /\ (call.args[1] = <<>> \/ call.args[2] = <<>>) => ret = 0
    /\ (call.args[1] # <<>> /\ call.args[1] = call.args[2]) =>
         ret = IF \E i \in DOMAIN call.args[1] :
                    i < Len(call.args[1])
                      /\ call.args[1][i] \in WordChars
                      /\ call.args[1][i + 1] \in WordChars
               THEN SimScale
               ELSE 0

\* A text of several tokens compared with itself, the similarity being 1.
C7_Witness ==
  /\ call.op = "calculate_similarity"
  /\ call.args[1] = call.args[2]
  /\ Cardinality(vocabulary_) > 1
  /\ ret = SimScale

(***************************************************************************)
(* Concurrent requests: threads calling calculate_similarity on the one    *)
(* shared SkillMatcher, and so on its one CountVectorizer.                 *)
(* fit_transform learns the vocabulary of its documents and counts the     *)
(* matrix in its own locals, then stores the vocabulary in vocabulary_.    *)
(***************************************************************************)
NumThreads == 2

MaxDocs == 3

Threads == 1..NumThreads

\* The texts the threads compare: texts made of the words java, go and script,
\* one without a token, and the empty text.
DocList ==
  <<Str("java"), Str("Go java"), Str(","), Str(""), Str("java script"),
    Str("script"), Str("Go"), Str("java java Go")>>

Docs == {DocList[i] : i \in 1..(IF MaxDocs < Len(DocList) THEN MaxDocs ELSE Len(DocList))}

InitThreads ==
  /\ tpc = [t \in Threads |-> "idle"]
  /\ targs = [t \in Threads |-> <<>>]
  /\ tlocal = [t \in Threads |-> <<>>]
  /\ tret = [t \in Threads |-> <<>>]

\* calculate_similarity is entered; an empty text returns 0.0 at once.
SimCall(t, resume_text, job_text) ==
  /\ tpc[t] = "idle"
  /\ targs' = [targs EXCEPT ![t] = <<resume_text, job_text>>]
  /\ tlocal' = [tlocal EXCEPT ![t] = <<>>]
  /\ IF resume_text = <<>> \/ job_text = <<>>
     THEN /\ tpc' = [tpc EXCEPT ![t] = "returned"]
          /\ tret' = [tret EXCEPT ![t] = 0]
     ELSE /\ tpc' = [tpc EXCEPT ![t] = "fit"]
          /\ tret' = [tret EXCEPT ![t] = <<>>]
  /\ UNCHANGED <<input_vars, engine_vars, handler_vars>>

\* fit_transform, first half: the vocabulary and the matrix of the documents;
\* an empty vocabulary raises ValueError, which the except clause turns into 0.0.
SimFit(t) ==
  /\ tpc[t] = "fit"
  /\ LET documents  == <<lower(targs[t][1]), lower(targs[t][2])>>
         vocabulary == fit_vocabulary(documents)
     IN  IF vocabulary = {}
         THEN /\ tpc' = [tpc EXCEPT ![t] = "returned"]
              /\ tret' = [tret EXCEPT ![t] = 0]
              /\ UNCHANGED tlocal
         ELSE /\ tpc' = [tpc EXCEPT ![t] = "store"]
              /\ tlocal' = [tlocal EXCEPT ![t] =
                   [vocabulary |-> vocabulary,
                    X |-> count_matrix(documents,
                                       transform_vocabulary(vocabulary, vocabulary_))]]
              /\ UNCHANGED tret
  /\ UNCHANGED <<targs, input_vars, engine_vars, handler_vars>>

\* fit_transform, second half: self.vocabulary_ = vocabulary, and X is returned.
SimStore(t) ==
  /\ tpc[t] = "store"
  /\ vocabulary_' = tlocal[t].vocabulary
  /\ tpc' = [tpc EXCEPT ![t] = "cosine"]
  /\ UNCHANGED <<targs, tlocal, tret, input_vars, call, ret, locals, handler_vars>>

\* cosine_similarity(X)[0, 1] is returned.
SimCosine(t) ==
  /\ tpc[t] = "cosine"
  /\ tret' = [tret EXCEPT ![t] = cosine_similarity(tlocal[t].X)]
  /\ tpc' = [tpc EXCEPT ![t] = "returned"]
  /\ UNCHANGED <<targs, tlocal, input_vars, engine_vars, handler_vars>>

\* The caller has the result; the thread is free for its next request.
SimDone(t) ==
  /\ tpc[t] = "returned"
  /\ tpc' = [tpc EXCEPT ![t] = "idle"]
  /\ targs' = [targs EXCEPT ![t] = <<>>]
  /\ tlocal' = [tlocal EXCEPT ![t] = <<>>]
  /\ tret' = [tret EXCEPT ![t] = <<>>]
  /\ UNCHANGED <<input_vars, engine_vars, handler_vars>>

InitVec ==
  /\ in_resume = <<>>
  /\ in_job = <<>>
  /\ InitEngine
  /\ InitThreads
  /\ InitHandler

NextVec ==
  \E t \in Threads :
    \/ \E a \in Docs, b \in Docs : SimCall(t, a, b)
    \/ SimFit(t)
    \/ SimStore(t)
    \/ SimCosine(t)
    \/ SimDone(t)

SpecVec == InitVec /\ [][NextVec]_vars

\* C8: whatever calls came before and however the calls of other threads are
\* interleaved with it, a calculate_similarity call returns what its own two
\* arguments give on a vectorizer of their own.
C8_OwnDocumentsOnly ==
  \A t \in Threads :
    tpc[t] = "returned" =>
      tret[t] = calculate_similarity(targs[t][1], targs[t][2], {}).similarity

\* A call has returned a similarity strictly between 0 and 1 while the shared
\* vectorizer holds the vocabulary of another thread's call still under way.
C8_Witness ==
  \E t \in Threads, u \in Threads :
    /\ t # u
    /\ tpc[t] = "returned"
    /\ tret[t] > 0
    /\ tret[t] < SimScale
    /\ tpc[u] = "cosine"
    /\ vocabulary_ = tlocal[u].vocabulary
    /\ vocabulary_ # tlocal[t].vocabulary

(***************************************************************************)
(* The document reader: src/resume_parser.py.  What a reader returns is    *)
(* [raised |-> FALSE, text |-> ...], or [raised |-> TRUE] when it raises.  *)
(***************************************************************************)
Returned(text) == [raised |-> FALSE, text |-> text]

Raised == [raised |-> TRUE]

\* The content of an uploaded file:
\*   "text"        a well-formed document of its format, holding the text;
\*   "malformed"   bytes the format's reader rejects (PDFSyntaxError, a docx
\*                 error, UnicodeDecodeError), which read as latin-1 give the text;
\*   "unreadable"  any other failure of the reader.
UploadTexts == {Str(""), Str("java"), Str("Go java")}

Contents ==
  [kind : {"text"}, text : UploadTexts]
    \cup {[kind |-> "malformed", text |-> Str("java")],
          [kind |-> "unreadable", text |-> Str("")]}

parse_pdf(content) ==
  IF content.kind = "text" THEN Returned(content.text)
  ELSE IF content.kind = "malformed" THEN Returned(<<>>)
  ELSE Raised

parse_docx(content) ==
  IF content.kind = "text" THEN Returned(content.text) ELSE Returned(<<>>)

parse_txt(content) ==
  IF content.kind = "text" THEN Returned(content.text)
  ELSE IF content.kind = "malformed" THEN Returned(content.text)
  ELSE Returned(<<>>)

\* os.path.splitext(p)[1]: from the last dot of the name, unless only dots
\* come before it.
splitext_ext(p) ==
  LET seps == {i \in DOMAIN p : p[i] = "/"}
      dots == {i \in DOMAIN p : p[i] = "."}
      sep  == IF seps = {} THEN 0 ELSE CHOOSE i \in seps : \A j \in seps : j <= i
      dot  == IF dots = {} THEN 0 ELSE CHOOSE i \in dots : \A j \in dots : j <= i
  IN  IF dot > sep /\ \E i \in (sep + 1)..(dot - 1) : p[i] # "."
      THEN SubSeq(p, dot, Len(p))
      ELSE <<>>

\* parse_document(file_path) for a temporary file of the given path and content.
parse_document(file_path, content) ==
  LET file_extension == lower(splitext_ext(file_path))
      read == IF file_extension = Str(".pdf") THEN parse_pdf(content)
              ELSE IF file_extension = Str(".docx") THEN parse_docx(content)
              ELSE IF file_extension = Str(".txt") THEN parse_txt(content)
              ELSE Returned(<<>>)
  IN  IF read.raised THEN <<>> ELSE read.text

(***************************************************************************)
(* The /analyze request handler: src/analyze.py.                           *)
(***************************************************************************)
\* What request.files holds for a field that was not uploaded.
Absent == [filename |-> <<>>, content |-> [kind |-> "absent", text |-> <<>>]]

FileNames ==
  {Str(""), Str("cv"), Str("cv.txt"), Str("cv.PDF"), Str("cv.docx"), Str("cv.exe")}

Files == [filename : FileNames, content : Contents]

Requests == [resume : Files \cup {Absent}, job_description : Files \cup {Absent}]

\* tempfile.NamedTemporaryFile(delete=False, suffix=ext).name
temp_path(prefix, filename) == Str("/tmp/") \o prefix \o splitext_ext(filename)

resume_path == temp_path(Str("tmpr"), request.resume.filename)

job_desc_path == temp_path(Str("tmpj"), request.job_description.filename)

\* As texts_missing, but refusing only when both texts are empty.
texts_missing_both(resume_text, job_desc_text) ==
  resume_text = <<>> /\ job_desc_text = <<>>

\* not resume_text or not job_desc_text
texts_missing(resume_text, job_desc_text) ==
  resume_text = <<>> \/ job_desc_text = <<>>

Respond(status, body) ==
  /\ response' = [status |-> status, body |-> body]
  /\ hpc' = "responded"

\* Lines 21 to 32: the request arrives and its two files are looked at.
Receive(req) ==
  /\ hpc = "idle"
  /\ request' = req
  /\ IF req.resume = Absent \/ req.job_description = Absent
     THEN Respond(400, [error |-> "Both resume and job description files are required"])
     ELSE IF req.resume.filename = <<>> \/ req.job_description.filename = <<>>
     THEN Respond(400, [error |-> "No selected file"])
     ELSE hpc' = "save_resume" /\ UNCHANGED response
  /\ UNCHANGED <<disk, hlocals, analyzed, raised, input_vars, engine_vars, thread_vars>>

\* Lines 34 to 36: the resume is saved in a temporary file.
SaveResume ==
  /\ hpc = "save_resume"
  /\ disk' = disk \cup {resume_path}
  /\ hpc' = "save_job"
  /\ UNCHANGED <<request, hlocals, analyzed, raised, response,
                 input_vars, engine_vars, thread_vars>>

\* Lines 38 to 40: the job description is saved in a temporary file.
SaveJob ==
  /\ hpc = "save_job"
  /\ disk' = disk \cup {job_desc_path}
  /\ hpc' = "parse_resume"
  /\ UNCHANGED <<request, hlocals, analyzed, raised, response,
                 input_vars, engine_vars, thread_vars>>

\* Lines 43 to 45.
ParseResume ==
  /\ hpc = "parse_resume"
  /\ hlocals' = [resume_text |-> parse_document(resume_path, request.resume.content)]
  /\ hpc' = "parse_job"
  /\ UNCHANGED <<request, disk, analyzed, raised, response,
                 input_vars, engine_vars, thread_vars>>

\* Lines 47 to 49.
ParseJob ==
  /\ hpc = "parse_job"
  /\ hlocals' = [resume_text |-> hlocals.resume_text,
                 job_desc_text |->
                   parse_document(job_desc_path, request.job_description.content)]
  /\ hpc' = "check_texts"
  /\ UNCHANGED <<request, disk, analyzed, raised, response,
                 input_vars, engine_vars, thread_vars>>

\* Lines 51 and 52: the return leaves the try block, which has no finally clause.
CheckTexts ==
  /\ hpc = "check_texts"
  /\ IF texts_missing(hlocals.resume_text, hlocals.job_desc_text)
     THEN Respond(400, [error |-> "Failed to parse one or both documents"])
     ELSE hpc' = "analyze" /\ UNCHANGED response
  /\ UNCHANGED <<request, disk, hlocals, analyzed, raised,
                 input_vars, engine_vars, thread_vars>>

\* Line 54: results = skill_matcher.analyze(resume_text, job_desc_text)
RunAnalyze ==
  /\ hpc = "analyze"
  /\ LET r == analyze(hlocals.resume_text, hlocals.job_desc_text, vocabulary_)
     IN  /\ hlocals' = [resume_text |-> hlocals.resume_text,
                        job_desc_text |-> hlocals.job_desc_text,
                        results |-> r.results]
         /\ vocabulary_' = r.vocabulary_
  /\ analyzed' = TRUE
  /\ hpc' = "unlink_resume"
  /\ UNCHANGED <<request, disk, raised, response, input_vars, call, ret, locals,
                 thread_vars>>

\* Line 56.
UnlinkResume ==
  /\ hpc = "unlink_resume"
  /\ disk' = disk \ {resume_path}
  /\ hpc' = "unlink_job"
  /\ UNCHANGED <<request, hlocals, analyzed, raised, response,
                 input_vars, engine_vars, thread_vars>>

\* Lines 57 and 59: the second file is removed and the results are returned.
UnlinkJobAndReturn ==
  /\ hpc = "unlink_job"
  /\ disk' = disk \ {job_desc_path}
  /\ Respond(200, hlocals.results)
  /\ UNCHANGED <<request, hlocals, analyzed, raised,
                 input_vars, engine_vars, thread_vars>>

\* A statement of the try block that reads, prints, analyses or removes a file
\* raises an exception.
Raise ==
  /\ hpc \in {"parse_resume", "parse_job", "analyze", "unlink_resume", "unlink_job"}
  /\ raised' = TRUE
  /\ analyzed' = (analyzed \/ hpc = "analyze")
  /\ hpc' = "except"
  /\ UNCHANGED <<request, disk, hlocals, response,
                 input_vars, engine_vars, thread_vars>>

\* Lines 61 to 66: the except clause removes the files that exist.
Except ==
  /\ hpc = "except"
  /\ disk' = (disk \ {resume_path}) \ {job_desc_path}
  /\ Respond(500, [error |-> "str(e)"])
  /\ UNCHANGED <<request, hlocals, analyzed, raised,
                 input_vars, engine_vars, thread_vars>>

InitHttp ==
  /\ in_resume = <<>>
  /\ in_job = <<>>
  /\ InitEngine
  /\ NoThreads
  /\ InitHandler

NextHttp ==
  \/ \E req \in Requests : Receive(req)
  \/ SaveResume
  \/ SaveJob
  \/ ParseResume
  \/ ParseJob
  \/ CheckTexts
  \/ RunAnalyze
  \/ UnlinkResume
  \/ UnlinkJobAndReturn
  \/ Raise
  \/ Except

SpecHttp == InitHttp /\ [][NextHttp]_vars

\* C9: the handler answers 400, without invoking analyze, when a file is missing
\* or unnamed; otherwise 500 when an exception reached its except clause;
\* otherwise 400, without invoking analyze, when a parsed text is empty; and
\* otherwise 200 with the analysis of the two parsed texts.
C9_ResponseStatus ==
  hpc = "responded" =>
    IF \/ request.resume = Absent
       \/ request.job_description = Absent
       \/ request.resume.filename = <<>>
       \/ request.job_description.filename = <<>>
    THEN response.status = 400 /\ ~analyzed
    ELSE IF raised
    THEN response.status = 500 /\ "error" \in DOMAIN response.body
    ELSE IF hlocals.resume_text = <<>> \/ hlocals.job_desc_text = <<>>
    THEN response.status = 400 /\ ~analyzed
    ELSE /\ response.status = 200
         /\ analyzed
         /\ response.body
              = analyze(hlocals.resume_text, hlocals.job_desc_text, {}).results

\* Two named files were uploaded, the job description parsed to a text and the
\* resume to none, and the answer is 400.
C9_Witness ==
  /\ hpc = "responded"
  /\ ~raised
  /\ DOMAIN hlocals = {"resume_text", "job_desc_text"}
  /\ hlocals.resume_text = <<>>
  /\ hlocals.job_desc_text # <<>>
  /\ response.status = 400

\* C10: when the handler has answered, no temporary file of the request is left.
C10_TempFilesDeleted == hpc = "responded" => disk = {}

============================================================================
